---- MODULE Spec2Model ----
(***************************************************************************)
(* Model of the ENEM score simulator (src/app.py): the name normaliser,    *)
(* the column resolver with its fuzzy suggestions, the input encoder and   *)
(* the script run that a form submission triggers.                         *)
(*                                                                         *)
(* Strings that pass through normalize are sequences of Unicode code       *)
(* points (84 = "T", 95 = "_", 231 = c with cedilla, ...).  Selection      *)
(* labels that the program only compares for equality or uses as dict      *)
(* keys are TLA+ strings, written without their accents (and the en dash   *)
(* of the age brackets as "-"); distinct labels stay distinct.  Comments   *)
(* quote the program's strings the same way.                               *)
(***************************************************************************)
EXTENDS Integers, Sequences, FiniteSets, TLC

VARIABLES
    cache,          \* st.cache_resource entry of load_artifacts: None or the feature list
    FEATURE_LIST,   \* module global, line 49
    ACTUAL_MAP,     \* module global, line 69: normalized token -> real column
    missing_cols,   \* module global _missing_cols, line 71
    suggestions,    \* module global _suggestions, line 72: col_name -> list of columns
    widgets,        \* the values of the form's widgets (the AnswerRecord's raw selections)
    inputs,         \* the inputs dict built at lines 284-309
    row,            \* the DataFrame row: [cols |-> column labels, vals |-> values]
    pc,             \* position of the script run
    k,              \* index of the next set_if_exists call of make_input_row
    out,            \* what the run has shown / invoked so far, in order
    ncalls,         \* functions called so far when the module's functions are called directly
    call,           \* the last call: the function with its arguments, or the rerun
                    \* of the script with what the previous run had left
    ret             \* what the last function called returned

vars == <<cache, FEATURE_LIST, ACTUAL_MAP, missing_cols, suggestions, widgets,
          inputs, row, pc, k, out, ncalls, call, ret>>

\* Python's None, where a string (a sequence of code points >= 0) is expected.
None == <<-1>>

(***************************************************************************)
(* Characters                                                              *)
(***************************************************************************)

\* unicodedata.normalize("NFKD", c) for one code point: the compatibility
\* decomposition.  ASCII decomposes to itself; the table holds the non-ASCII
\* characters of the program's column names and of the model's alphabet.
NFKD_char(c) ==
    CASE c = 231  -> <<99, 807>>        \* c-cedilla      -> c + combining cedilla
      [] c = 199  -> <<67, 807>>        \* C-cedilla      -> C + combining cedilla
      [] c = 227  -> <<97, 771>>        \* a-tilde        -> a + combining tilde
      [] c = 224  -> <<97, 768>>        \* a-grave        -> a + combining grave
      [] c = 233  -> <<101, 769>>       \* e-acute        -> e + combining acute
      [] c = 245  -> <<111, 771>>       \* o-tilde        -> o + combining tilde
      [] c = 170  -> <<97>>             \* feminine ordinal indicator -> a
      [] c = 186  -> <<111>>            \* masculine ordinal indicator -> o
      [] c = 64257 -> <<102, 105>>      \* ligature fi    -> f i
      [] c = 189  -> <<49, 8260, 50>>   \* one half       -> 1 fraction-slash 2
      [] OTHER    -> <<c>>              \* ASCII, en dash 8211, combining marks

IsAscii(c) == c < 128

\* str.lower() on an ASCII string
LowerChar(c) == IF c >= 65 /\ c <= 90 THEN c + 32 ELSE c

\* the character class [a-z0-9]
IsAlnumLower(c) == (c >= 97 /\ c <= 122) \/ (c >= 48 /\ c <= 57)

Underscore == <<95>>

(***************************************************************************)
(* normalize (lines 52-66)                                                 *)
(***************************************************************************)

RECURSIVE NFKD(_)
NFKD(s) == IF s = <<>> THEN <<>> ELSE NFKD_char(Head(s)) \o NFKD(Tail(s))

\* s.encode("ascii", "ignore").decode("ascii")
AsciiIgnore(s) == SelectSeq(s, IsAscii)

Lower(s) == [i \in 1..Len(s) |-> LowerChar(s[i])]

\* re.sub(r"[^a-z0-9]+", "_", s): every maximal run of characters outside
\* [a-z0-9] becomes one underscore.
RECURSIVE SubNonAlnum(_, _)
SubNonAlnum(s, inRun) ==
    IF s = <<>> THEN <<>>
    ELSE IF IsAlnumLower(Head(s)) THEN <<Head(s)>> \o SubNonAlnum(Tail(s), FALSE)
    ELSE IF inRun THEN SubNonAlnum(Tail(s), TRUE)
    ELSE Underscore \o SubNonAlnum(Tail(s), TRUE)

\* re.sub(r"_+", "_", s)
RECURSIVE SubUnderscores(_, _)
SubUnderscores(s, inRun) ==
    IF s = <<>> THEN <<>>
    ELSE IF Head(s) # 95 THEN <<Head(s)>> \o SubUnderscores(Tail(s), FALSE)
    ELSE IF inRun THEN SubUnderscores(Tail(s), TRUE)
    ELSE Underscore \o SubUnderscores(Tail(s), TRUE)

\* s.strip("_")
RECURSIVE LStrip(_)
LStrip(s) == IF s # <<>> /\ Head(s) = 95 THEN LStrip(Tail(s)) ELSE s

RECURSIVE RStrip(_)
RStrip(s) == IF s # <<>> /\ s[Len(s)] = 95 THEN RStrip(SubSeq(s, 1, Len(s) - 1)) ELSE s

Strip(s) == RStrip(LStrip(s))

\* normalize with line 65's strip applied before the substitutions of lines
\* 64-65 instead of after them
normalize_strip_first(s) ==
    IF s = None THEN <<>>
    ELSE SubUnderscores(SubNonAlnum(Strip(Lower(AsciiIgnore(NFKD(s)))), FALSE), FALSE)

normalize(s) ==
    IF s = None THEN <<>>
    ELSE Strip(SubUnderscores(SubNonAlnum(Lower(AsciiIgnore(NFKD(s))), FALSE), FALSE))

(***************************************************************************)
(* ACTUAL_MAP (line 69)                                                    *)
(***************************************************************************)

\* d[key] = v on a dict: a later assignment to the same key replaces the value
DictSet(d, key, v) == [x \in (DOMAIN d) \cup {key} |-> IF x = key THEN v ELSE d[x]]

EmptyDict == [x \in {} |-> None]

\* line 69 with a key's first column kept instead of its last
RECURSIVE ActualMapFromFirst(_, _)
ActualMapFromFirst(feature_list, d) ==
    IF feature_list = <<>> THEN d
    ELSE ActualMapFromFirst(Tail(feature_list),
                            IF normalize(Head(feature_list)) \in DOMAIN d THEN d
                            ELSE DictSet(d, normalize(Head(feature_list)),
                                         Head(feature_list)))

\* {normalize(c): c for c in feature_list}: built left to right
RECURSIVE ActualMapFrom(_, _)
ActualMapFrom(feature_list, d) ==
    IF feature_list = <<>> THEN d
    ELSE ActualMapFrom(Tail(feature_list),
                       DictSet(d, normalize(Head(feature_list)), Head(feature_list)))

MakeActualMap(feature_list) == ActualMapFrom(feature_list, EmptyDict)

(***************************************************************************)
(* difflib.get_close_matches(norm, ACTUAL_MAP.keys(), n=3, cutoff=0.6),    *)
(* the library call of line 81.  A ratio 2.0*matches/length is kept as the *)
(* pair <<2*matches, length>> and compared by cross-multiplication.        *)
(***************************************************************************)

\* n=3 and cutoff=0.6 of the call at line 81
CloseN == 3
CutoffNum == 6
CutoffDen == 10

Min(x, y) == IF x < y THEN x ELSE y

\* SequenceMatcher._calculate_ratio
calculate_ratio(matches, length) ==
    IF length > 0 THEN <<2 * matches, length>> ELSE <<1, 1>>

RatioGE(r, num, den) == r[1] * den >= num * r[2]

\* SequenceMatcher.real_quick_ratio: an upper bound from the lengths alone
real_quick_ratio(a, b) == calculate_ratio(Min(Len(a), Len(b)), Len(a) + Len(b))

Count(s, c) == Cardinality({i \in 1..Len(s) : s[i] = c})

\* the number of occurrences of s[i] in s[1..i]
OccIndex(s, i) == Cardinality({j \in 1..i : s[j] = s[i]})

\* SequenceMatcher.quick_ratio: an upper bound from the multisets of characters.
\* An element of a counts as a match while b still has an occurrence left for it.
quick_ratio(a, b) ==
    calculate_ratio(Cardinality({i \in 1..Len(a) : OccIndex(a, i) <= Count(b, a[i])}),
                    Len(a) + Len(b))

\* length of the common run of a and b starting at a[i], b[j] (0-based, as in
\* difflib) inside a[..ahi), b[..bhi)
RECURSIVE MatchLen(_, _, _, _, _, _)
MatchLen(a, b, i, j, ahi, bhi) ==
    IF i < ahi /\ j < bhi /\ a[i + 1] = b[j + 1]
    THEN 1 + MatchLen(a, b, i + 1, j + 1, ahi, bhi)
    ELSE 0

\* the blocks <<i, j, size>> that start at each pair of equal elements
Blocks(a, b, alo, ahi, blo, bhi) ==
    {<<p[1], p[2], MatchLen(a, b, p[1], p[2], ahi, bhi)>> :
        p \in {q \in (alo..(ahi - 1)) \X (blo..(bhi - 1)) : a[q[1] + 1] = b[q[2] + 1]}}

Longest(B) == {m \in B : \A x \in B : m[3] >= x[3]}
EarliestInA(B) == {m \in B : \A x \in B : m[1] <= x[1]}
EarliestInB(B) == {m \in B : \A x \in B : m[2] <= x[2]}

\* of the longest blocks the one starting earliest in a, then earliest in b
BestBlock(B, alo, blo) ==
    IF B = {} THEN <<alo, blo, 0>>
    ELSE CHOOSE m \in EarliestInB(EarliestInA(Longest(B))) : TRUE

\* SequenceMatcher.find_longest_match without junk: <<i, j, size>>
find_longest_match(a, b, alo, ahi, blo, bhi) ==
    BestBlock(Blocks(a, b, alo, ahi, blo, bhi), alo, blo)

\* the sum of the sizes of SequenceMatcher.get_matching_blocks: the longest
\* block m, then the blocks to its left and to its right
RECURSIVE MatchCount(_, _, _, _, _, _)
RECURSIVE MatchCountAround(_, _, _, _, _, _, _)
MatchCountAround(a, b, alo, ahi, blo, bhi, m) ==
    IF m[3] = 0 THEN 0
    ELSE m[3]
         + (IF alo < m[1] /\ blo < m[2]
            THEN MatchCount(a, b, alo, m[1], blo, m[2]) ELSE 0)
         + (IF m[1] + m[3] < ahi /\ m[2] + m[3] < bhi
            THEN MatchCount(a, b, m[1] + m[3], ahi, m[2] + m[3], bhi) ELSE 0)

MatchCount(a, b, alo, ahi, blo, bhi) ==
    MatchCountAround(a, b, alo, ahi, blo, bhi,
                     find_longest_match(a, b, alo, ahi, blo, bhi))

\* SequenceMatcher.ratio
ratio(a, b) == calculate_ratio(MatchCount(a, b, 0, Len(a), 0, Len(b)), Len(a) + Len(b))

\* Python's  s < t  on strings: lexicographic by code point
RECURSIVE StrLess(_, _)
StrLess(s, t) ==
    IF t = <<>> THEN FALSE
    ELSE IF s = <<>> THEN TRUE
    ELSE IF Head(s) # Head(t) THEN Head(s) < Head(t)
    ELSE StrLess(Tail(s), Tail(t))

\* (score, x) > (score', x') on the tuples get_close_matches ranks
ScoredGreater(p, q) ==
    \/ p.r[1] * q.r[2] > q.r[1] * p.r[2]
    \/ p.r[1] * q.r[2] = q.r[1] * p.r[2] /\ StrLess(q.x, p.x)

\* the largest of the tuples of S
Top(S) == CHOOSE p \in S : \A q \in S \ {p} : ScoredGreater(p, q)

\* heapq.nlargest(n, result): the n largest, best first
RECURSIVE NLargest(_, _)
NLargest(n, S) ==
    IF n = 0 \/ S = {} THEN <<>>
    ELSE <<Top(S)>> \o NLargest(n - 1, S \ {Top(S)})

\* the (score, x) tuples of the possibilities that pass the three tests
Scored(word, possibilities, cutoffNum, cutoffDen) ==
    {[r |-> ratio(x, word), x |-> x] :
        x \in {y \in possibilities :
                 /\ RatioGE(real_quick_ratio(y, word), cutoffNum, cutoffDen)
                 /\ RatioGE(quick_ratio(y, word), cutoffNum, cutoffDen)
                 /\ RatioGE(ratio(y, word), cutoffNum, cutoffDen)}}

Xs(scored) == [i \in 1..Len(scored) |-> scored[i].x]

get_close_matches(word, possibilities, n, cutoffNum, cutoffDen) ==
    Xs(NLargest(n, Scored(word, possibilities, cutoffNum, cutoffDen)))

(***************************************************************************)
(* The program's lists and column-name literals                            *)
(***************************************************************************)

\* UF_LIST (lines 87-90): "AC", "AL", ..., "TO" as code points
UF_LIST ==
    << <<65, 67>>, <<65, 76>>, <<65, 77>>, <<65, 80>>, <<66, 65>>, <<67, 69>>, <<68, 70>>,
       <<69, 83>>, <<71, 79>>, <<77, 65>>, <<77, 71>>, <<77, 83>>, <<77, 84>>, <<80, 65>>,
       <<80, 66>>, <<80, 69>>, <<80, 73>>, <<80, 82>>, <<82, 74>>, <<82, 78>>, <<82, 79>>,
       <<82, 82>>, <<82, 83>>, <<83, 67>>, <<83, 69>>, <<83, 80>>, <<84, 79>> >>

\* INSTR_LIST (lines 92-100)
INSTR_LIST ==
    << "Nunca estudou.",
       "Nao completou a 4a serie/5o ano do Ensino Fundamental.",
       "Completou a 4a serie/5o ano, mas nao completou a 8a serie/9o ano do Ensino Fundamental.",
       "Completou a 8a serie/9o ano do Ensino Fundamental, mas nao completou o Ensino Medio.",
       "Completou o Ensino Medio, mas nao completou a Faculdade.",
       "Completou a Faculdade, mas nao completou a Pos-graduacao.",
       "Completou a Pos-graduacao." >>

\* PROF_LIST (lines 103-109)
PROF_LIST ==
    << "Grupo 1: Agricultura/extrativismo/boia-fria etc.",
       "Grupo 2: Servicos gerais/comercio/auxiliares/operacionais.",
       "Grupo 3: Industria/oficios/operadores/motoristas.",
       "Grupo 4: Tecnicos/professores (basico)/supervisao/autonomos/pequenos empresarios.",
       "Grupo 5: Profissionais de nivel superior/alta gestao/empresarios medios e grandes." >>

\* RENDA_LIST (lines 112-130)
RENDA_LIST ==
    << "Nenhuma Renda",
       "Ate 1 Salario Minimo",
       "De 1 a 1,5 Salarios Minimos",
       "De 1,5 a 2 Salarios Minimos",
       "De 2 a 2,5 Salarios Minimos",
       "De 2,5 a 3 Salarios Minimos",
       "De 3 a 4 Salarios Minimos",
       "De 4 a 5 Salarios Minimos",
       "De 5 a 6 Salarios Minimos",
       "De 6 a 7 Salarios Minimos",
       "De 7 a 8 Salarios Minimos",
       "De 8 a 9 Salarios Minimos",
       "De 9 a 10 Salarios Minimos",
       "De 10 a 12 Salarios Minimos",
       "De 12 a 15 Salarios Minimos",
       "De 15 a 20 Salarios Minimos",
       "Acima de 20 Salarios Minimos" >>

\* FAIXA_ETARIA (lines 133-137)
FAIXA_ETARIA ==
    << "Menor de 17 anos",
       "17 anos",
       "18 anos",
       "19 anos",
       "20 anos",
       "21 anos",
       "22 anos",
       "23 anos",
       "24 anos",
       "25 anos",
       "26-30 anos",
       "31-35 anos",
       "36-40 anos",
       "41-45 anos",
       "46-50 anos",
       "51-55 anos",
       "56-60 anos",
       "61-65 anos",
       "66-70 anos",
       "Maior de 70 anos" >>

\* The column-name literals of make_input_row (lines 160-207), as code points
\* "TP_FAIXA_ETARIA" (line 160)
COL_TP_FAIXA_ETARIA == <<84, 80, 95, 70, 65, 73, 88, 65, 95, 69, 84, 65, 82, 73, 65>>
\* "Qtd Residentes" (line 161)
COL_QTD_RESIDENTES == <<81, 116, 100, 32, 82, 101, 115, 105, 100, 101, 110, 116, 101, 115>>
\* "Renda Familiar_ord" (line 162)
COL_RENDA_ORD == <<82, 101, 110, 100, 97, 32, 70, 97, 109, 105, 108, 105, 97, 114, 95, 111, 114, 100>>
\* "Instrucao do pai_ord" (line 165)
COL_INSTR_PAI_ORD == <<73, 110, 115, 116, 114, 117, 231, 227, 111, 32, 100, 111, 32, 112, 97, 105, 95, 111, 114, 100>>
\* "Instrucao da mae_ord" (line 166)
COL_INSTR_MAE_ORD == <<73, 110, 115, 116, 114, 117, 231, 227, 111, 32, 100, 97, 32, 109, 227, 101, 95, 111, 114, 100>>
\* "Profissao do pai_ord" (line 167)
COL_PROF_PAI_ORD == <<80, 114, 111, 102, 105, 115, 115, 227, 111, 32, 100, 111, 32, 112, 97, 105, 95, 111, 114, 100>>
\* "Profissao da mae_ord" (line 168)
COL_PROF_MAE_ORD == <<80, 114, 111, 102, 105, 115, 115, 227, 111, 32, 100, 97, 32, 109, 227, 101, 95, 111, 114, 100>>
\* "Instrucao do pai_nao_sei" (line 169)
COL_INSTR_PAI_NS == <<73, 110, 115, 116, 114, 117, 231, 227, 111, 32, 100, 111, 32, 112, 97, 105, 95, 110, 97, 111, 95, 115, 101, 105>>
\* "Instrucao da mae_nao_sei" (line 170)
COL_INSTR_MAE_NS == <<73, 110, 115, 116, 114, 117, 231, 227, 111, 32, 100, 97, 32, 109, 227, 101, 95, 110, 97, 111, 95, 115, 101, 105>>
\* "Profissao do pai_nao_sei" (line 171)
COL_PROF_PAI_NS == <<80, 114, 111, 102, 105, 115, 115, 227, 111, 32, 100, 111, 32, 112, 97, 105, 95, 110, 97, 111, 95, 115, 101, 105>>
\* "Profissao da mae_nao_sei" (line 172)
COL_PROF_MAE_NS == <<80, 114, 111, 102, 105, 115, 115, 227, 111, 32, 100, 97, 32, 109, 227, 101, 95, 110, 97, 111, 95, 115, 101, 105>>
\* "TP_SEXO_" (line 176)
PFX_TP_SEXO == <<84, 80, 95, 83, 69, 88, 79, 95>>
\* "TP_ESTADO_CIVIL_" (line 180)
PFX_TP_ESTADO_CIVIL == <<84, 80, 95, 69, 83, 84, 65, 68, 79, 95, 67, 73, 86, 73, 76, 95>>
\* "TP_COR_RACA_" (line 184)
PFX_TP_COR_RACA == <<84, 80, 95, 67, 79, 82, 95, 82, 65, 67, 65, 95>>
\* "TP_NACIONALIDADE_" (line 188)
PFX_TP_NACIONALIDADE == <<84, 80, 95, 78, 65, 67, 73, 79, 78, 65, 76, 73, 68, 65, 68, 69, 95>>
\* "TP_ST_CONCLUSAO_" (line 192)
PFX_TP_ST_CONCLUSAO == <<84, 80, 95, 83, 84, 95, 67, 79, 78, 67, 76, 85, 83, 65, 79, 95>>
\* "TP_ESCOLA_" (line 196)
PFX_TP_ESCOLA == <<84, 80, 95, 69, 83, 67, 79, 76, 65, 95>>
\* "SG_UF_PROVA_" (line 199)
PFX_SG_UF_PROVA == <<83, 71, 95, 85, 70, 95, 80, 82, 79, 86, 65, 95>>
\* "TP_LINGUA_" (line 203)
PFX_TP_LINGUA == <<84, 80, 95, 76, 73, 78, 71, 85, 65, 95>>
\* "Acesso a internet_A" (line 206)
COL_INTERNET_A == <<65, 99, 101, 115, 115, 111, 32, 224, 32, 105, 110, 116, 101, 114, 110, 101, 116, 95, 65>>
\* "Acesso a internet_B" (line 207)
COL_INTERNET_B == <<65, 99, 101, 115, 115, 111, 32, 224, 32, 105, 110, 116, 101, 114, 110, 101, 116, 95, 66>>


(***************************************************************************)
(* The feature lists the artifact may hold (load_artifacts, lines 38-47):  *)
(* the names the model was trained with.  Each is a list of distinct       *)
(* names, as a LightGBM booster's feature names are.                       *)
(***************************************************************************)

\* "TP_FAIXA_ETARIA", "Qtd_Residentes", "Renda_Familiar_ord", "Instrucao_do_pai_ord", "Instrucao_do_pai_nao_sei", "TP_SEXO_F", "TP_SEXO_M", "SG_UF_PROVA_SP", "SG_UF_PROVA_SE", "Acesso_a_internet_A", "Acesso_a_internet_B"
SchemaSanitized ==
    << <<84, 80, 95, 70, 65, 73, 88, 65, 95, 69, 84, 65, 82, 73, 65>>,
       <<81, 116, 100, 95, 82, 101, 115, 105, 100, 101, 110, 116, 101, 115>>,
       <<82, 101, 110, 100, 97, 95, 70, 97, 109, 105, 108, 105, 97, 114, 95, 111, 114, 100>>,
       <<73, 110, 115, 116, 114, 117, 99, 97, 111, 95, 100, 111, 95, 112, 97, 105, 95, 111, 114, 100>>,
       <<73, 110, 115, 116, 114, 117, 99, 97, 111, 95, 100, 111, 95, 112, 97, 105, 95, 110, 97, 111, 95, 115, 101, 105>>,
       <<84, 80, 95, 83, 69, 88, 79, 95, 70>>,
       <<84, 80, 95, 83, 69, 88, 79, 95, 77>>,
       <<83, 71, 95, 85, 70, 95, 80, 82, 79, 86, 65, 95, 83, 80>>,
       <<83, 71, 95, 85, 70, 95, 80, 82, 79, 86, 65, 95, 83, 69>>,
       <<65, 99, 101, 115, 115, 111, 95, 97, 95, 105, 110, 116, 101, 114, 110, 101, 116, 95, 65>>,
       <<65, 99, 101, 115, 115, 111, 95, 97, 95, 105, 110, 116, 101, 114, 110, 101, 116, 95, 66>> >>

\* "Instrucao da mae_ord", "Instrucao da mae_nao_sei", "Profissao do pai_ord", "Profissao do pai_nao_sei", "TP_ESTADO_CIVIL_0.0", "TP_ESTADO_CIVIL_1.0", "TP_COR_RACA_3", "TP_COR_RACA_1", "TP_NACIONALIDADE_1", "TP_LINGUA_0", "TP_LINGUA_1"
SchemaAccented ==
    << <<73, 110, 115, 116, 114, 117, 231, 227, 111, 32, 100, 97, 32, 109, 227, 101, 95, 111, 114, 100>>,
       <<73, 110, 115, 116, 114, 117, 231, 227, 111, 32, 100, 97, 32, 109, 227, 101, 95, 110, 97, 111, 95, 115, 101, 105>>,
       <<80, 114, 111, 102, 105, 115, 115, 227, 111, 32, 100, 111, 32, 112, 97, 105, 95, 111, 114, 100>>,
       <<80, 114, 111, 102, 105, 115, 115, 227, 111, 32, 100, 111, 32, 112, 97, 105, 95, 110, 97, 111, 95, 115, 101, 105>>,
       <<84, 80, 95, 69, 83, 84, 65, 68, 79, 95, 67, 73, 86, 73, 76, 95, 48, 46, 48>>,
       <<84, 80, 95, 69, 83, 84, 65, 68, 79, 95, 67, 73, 86, 73, 76, 95, 49, 46, 48>>,
       <<84, 80, 95, 67, 79, 82, 95, 82, 65, 67, 65, 95, 51>>,
       <<84, 80, 95, 67, 79, 82, 95, 82, 65, 67, 65, 95, 49>>,
       <<84, 80, 95, 78, 65, 67, 73, 79, 78, 65, 76, 73, 68, 65, 68, 69, 95, 49>>,
       <<84, 80, 95, 76, 73, 78, 71, 85, 65, 95, 48>>,
       <<84, 80, 95, 76, 73, 78, 71, 85, 65, 95, 49>> >>

\* "TP_SEXO_F", "TP_SEXO_M", "tp sexo f", "TP_ST_CONCLUSAO_1", "TP_ST_CONCLUSAO_2", "TP_ST_CONCLUSAO_4", "TP_ESCOLA_1", "TP_ESCOLA_2", "TP_ESCOLA_3", "Qtd_Residentes", "Qtd Residentes"
SchemaColliding ==
    << <<84, 80, 95, 83, 69, 88, 79, 95, 70>>,
       <<84, 80, 95, 83, 69, 88, 79, 95, 77>>,
       <<116, 112, 32, 115, 101, 120, 111, 32, 102>>,
       <<84, 80, 95, 83, 84, 95, 67, 79, 78, 67, 76, 85, 83, 65, 79, 95, 49>>,
       <<84, 80, 95, 83, 84, 95, 67, 79, 78, 67, 76, 85, 83, 65, 79, 95, 50>>,
       <<84, 80, 95, 83, 84, 95, 67, 79, 78, 67, 76, 85, 83, 65, 79, 95, 52>>,
       <<84, 80, 95, 69, 83, 67, 79, 76, 65, 95, 49>>,
       <<84, 80, 95, 69, 83, 67, 79, 76, 65, 95, 50>>,
       <<84, 80, 95, 69, 83, 67, 79, 76, 65, 95, 51>>,
       <<81, 116, 100, 95, 82, 101, 115, 105, 100, 101, 110, 116, 101, 115>>,
       <<81, 116, 100, 32, 82, 101, 115, 105, 100, 101, 110, 116, 101, 115>> >>

\* "TP_FAIXA_ETARIA", "Renda_Familiar", "TP_SEXO", "Profissao da mae_ord", "Profissao da mae_nao_sei", "TP_ESTADO_CIVIL_0", "SG_UF_PROVA_AC", "IN_TREINEIRO", "Q025"
SchemaMisspelled ==
    << <<84, 80, 95, 70, 65, 73, 88, 65, 95, 69, 84, 65, 82, 73, 65>>,
       <<82, 101, 110, 100, 97, 95, 70, 97, 109, 105, 108, 105, 97, 114>>,
       <<84, 80, 95, 83, 69, 88, 79>>,
       <<80, 114, 111, 102, 105, 115, 115, 97, 111, 32, 100, 97, 32, 109, 97, 101, 95, 111, 114, 100>>,
       <<80, 114, 111, 102, 105, 115, 115, 97, 111, 32, 100, 97, 32, 109, 97, 101, 95, 110, 97, 111, 95, 115, 101, 105>>,
       <<84, 80, 95, 69, 83, 84, 65, 68, 79, 95, 67, 73, 86, 73, 76, 95, 48>>,
       <<83, 71, 95, 85, 70, 95, 80, 82, 79, 86, 65, 95, 65, 67>>,
       <<73, 78, 95, 84, 82, 69, 73, 78, 69, 73, 82, 79>>,
       <<81, 48, 50, 53>> >>

\* "Column_0", "Column_1", "Column_2"
SchemaDefaultNames ==
    << <<67, 111, 108, 117, 109, 110, 95, 48>>,
       <<67, 111, 108, 117, 109, 110, 95, 49>>,
       <<67, 111, 108, 117, 109, 110, 95, 50>> >>


Schemas == {SchemaSanitized, SchemaAccented, SchemaColliding, SchemaMisspelled,
            SchemaDefaultNames}

(***************************************************************************)
(* The one-row DataFrame: column labels and the row's values               *)
(***************************************************************************)

\* empty_row (lines 140-141)
empty_row(feature_list) ==
    [cols |-> feature_list, vals |-> [i \in 1..Len(feature_list) |-> 0]]

\* real in row.columns
InColumns(r, label) == \E i \in 1..Len(r.cols) : r.cols[i] = label

\* row[real] = val for a label among the columns
SetColumn(r, label, val) ==
    [cols |-> r.cols,
     vals |-> [i \in 1..Len(r.vals) |-> IF r.cols[i] = label THEN val ELSE r.vals[i]]]

\* the position of a label among the columns
ColumnAt(cols, label) == CHOOSE i \in 1..Len(cols) : cols[i] = label

\* line 210 as row[sorted(feature_list)]
SelectColumnsSorted(r, labels) ==
    [cols |-> SortSeq(labels, StrLess),
     vals |-> [i \in 1..Len(labels) |->
                  r.vals[ColumnAt(r.cols, SortSeq(labels, StrLess)[i])]]]

\* row[labels]: the columns with these labels, in the order of labels (every
\* label is among the columns: the row was built from the same list)
SelectColumns(r, labels) ==
    [cols |-> [i \in 1..Len(labels) |-> r.cols[ColumnAt(r.cols, labels[i])]],
     vals |-> [i \in 1..Len(labels) |-> r.vals[ColumnAt(r.cols, labels[i])]]]

(***************************************************************************)
(* map_nao_sei and the ordinal maps (lines 101, 110, 131, 138, 150-154)    *)
(***************************************************************************)

\* {txt: i+1 for i, txt in enumerate(list)}, i counting from 0
RECURSIVE EnumMapFrom(_, _, _)
EnumMapFrom(list, i, d) ==
    IF i >= Len(list) THEN d
    ELSE EnumMapFrom(list, i + 1, DictSet(d, list[i + 1], i + 1))

\* lines 101, 110, 131, 138 without the "+1": positions counted from 0
EnumMapZeroBased(list) ==
    [x \in {list[i] : i \in 1..Len(list)} |->
        (CHOOSE i \in 1..Len(list) : list[i] = x) - 1]

EnumMap(list) == EnumMapFrom(list, 0, [x \in {} |-> 0])

INSTR_MAP == EnumMap(INSTR_LIST)
PROF_MAP == EnumMap(PROF_LIST)
RENDA_MAP == EnumMap(RENDA_LIST)
FAIXA_MAP == EnumMap(FAIXA_ETARIA)

NaoSei == "Nao sei"

\* map_nao_sei with the flag of line 153 left at 0
map_nao_sei_unflagged(selection, mapping) ==
    IF selection = NaoSei THEN <<0, 0>> ELSE <<mapping[selection], 0>>

\* Returns <<ordinal, flag>>
map_nao_sei(selection, mapping) ==
    IF selection = NaoSei THEN <<0, 1>> ELSE <<mapping[selection], 0>>

(***************************************************************************)
(* The form (lines 215-275): each widget's options and its default         *)
(***************************************************************************)

\* "F", "M" (line 224)
OPT_SEXO == << <<70>>, <<77>> >>
\* "1", "2", "3" (line 225)
OPT_ESCOLA == << <<49>>, <<50>>, <<51>> >>
\* "0", "1" (line 229)
OPT_LINGUA == << <<48>>, <<49>> >>
\* "0.0", "1.0", "2.0", "3.0", "4.0" (line 232)
OPT_EST_CIVIL == << <<48, 46, 48>>, <<49, 46, 48>>, <<50, 46, 48>>, <<51, 46, 48>>,
                    <<52, 46, 48>> >>
\* "0" .. "6" (line 241)
OPT_RACA == << <<48>>, <<49>>, <<50>>, <<51>>, <<52>>, <<53>>, <<54>> >>
\* "0" .. "4" (line 250)
OPT_NAC == << <<48>>, <<49>>, <<50>>, <<51>>, <<52>> >>
\* "1", "2", "4" (line 259)
OPT_ST_CONC == << <<49>>, <<50>>, <<52>> >>
\* line 273
TemAcesso == "Tem acesso"
NaoTemAcesso == "Nao tem acesso"
OPT_INTERNET == <<TemAcesso, NaoTemAcesso>>
\* ["Nao sei"] + INSTR_LIST, ["Nao sei"] + PROF_LIST (lines 267-270)
OPT_INSTR == <<NaoSei>> \o INSTR_LIST
OPT_PROF == <<NaoSei>> \o PROF_LIST

\* st.number_input(..., 1, 20, 3) (line 222)
QtdMin == 1
QtdMax == 20
QtdDefault == 3

Range(s) == {s[i] : i \in 1..Len(s)}

\* selectbox(..., index=n) and radio(..., index=n): the option at 0-based index n
AtIndex(options, n) == options[n + 1]

Fields == {"fx", "qtd", "renda_txt", "sexo", "escola", "uf", "lingua", "est_civil",
           "raca", "nac", "st_conc", "instr_pai_sel", "instr_mae_sel",
           "prof_pai_sel", "prof_mae_sel", "internet"}

\* the values a widget can hold
Options(f) ==
    CASE f = "fx" -> Range(FAIXA_ETARIA)
      [] f = "qtd" -> QtdMin..QtdMax
      [] f = "renda_txt" -> Range(RENDA_LIST)
      [] f = "sexo" -> Range(OPT_SEXO)
      [] f = "escola" -> Range(OPT_ESCOLA)
      [] f = "uf" -> Range(UF_LIST)
      [] f = "lingua" -> Range(OPT_LINGUA)
      [] f = "est_civil" -> Range(OPT_EST_CIVIL)
      [] f = "raca" -> Range(OPT_RACA)
      [] f = "nac" -> Range(OPT_NAC)
      [] f = "st_conc" -> Range(OPT_ST_CONC)
      [] f = "instr_pai_sel" -> Range(OPT_INSTR)
      [] f = "instr_mae_sel" -> Range(OPT_INSTR)
      [] f = "prof_pai_sel" -> Range(OPT_PROF)
      [] f = "prof_mae_sel" -> Range(OPT_PROF)
      [] f = "internet" -> Range(OPT_INTERNET)

\* what the widgets hold when the form is first shown
DefaultWidgets ==
    [fx |-> AtIndex(FAIXA_ETARIA, 1),
     qtd |-> QtdDefault,
     renda_txt |-> AtIndex(RENDA_LIST, 5),
     sexo |-> AtIndex(OPT_SEXO, 0),
     escola |-> AtIndex(OPT_ESCOLA, 1),
     uf |-> AtIndex(UF_LIST, 24),
     lingua |-> AtIndex(OPT_LINGUA, 0),
     est_civil |-> AtIndex(OPT_EST_CIVIL, 0),
     raca |-> AtIndex(OPT_RACA, 3),
     nac |-> AtIndex(OPT_NAC, 1),
     st_conc |-> AtIndex(OPT_ST_CONC, 1),
     instr_pai_sel |-> AtIndex(OPT_INSTR, 0),
     instr_mae_sel |-> AtIndex(OPT_INSTR, 0),
     prof_pai_sel |-> AtIndex(OPT_PROF, 0),
     prof_mae_sel |-> AtIndex(OPT_PROF, 0),
     internet |-> AtIndex(OPT_INTERNET, 0)]

(***************************************************************************)
(* The inputs dict (lines 279-309)                                         *)
(***************************************************************************)

BuildInputs(w) ==
    [TP_FAIXA_ETARIA |-> FAIXA_MAP[w.fx],
     Qtd_Residentes |-> w.qtd,
     Renda_Familiar_ord |-> RENDA_MAP[w.renda_txt],
     TP_SEXO |-> w.sexo,
     TP_ESCOLA |-> w.escola,
     UF |-> w.uf,
     TP_LINGUA |-> IF w.lingua = <<48>> THEN <<48>> ELSE <<49>>,
     TP_ESTADO_CIVIL |-> w.est_civil,
     TP_COR_RACA |-> w.raca,
     TP_NACIONALIDADE |-> w.nac,
     TP_ST_CONCLUSAO |-> w.st_conc,
     Instrucao_pai_ord |-> map_nao_sei(w.instr_pai_sel, INSTR_MAP)[1],
     Instrucao_mae_ord |-> map_nao_sei(w.instr_mae_sel, INSTR_MAP)[1],
     Prof_pai_ord |-> map_nao_sei(w.prof_pai_sel, PROF_MAP)[1],
     Prof_mae_ord |-> map_nao_sei(w.prof_mae_sel, PROF_MAP)[1],
     Instrucao_pai_ns |-> map_nao_sei(w.instr_pai_sel, INSTR_MAP)[2],
     Instrucao_mae_ns |-> map_nao_sei(w.instr_mae_sel, INSTR_MAP)[2],
     Prof_pai_ns |-> map_nao_sei(w.prof_pai_sel, PROF_MAP)[2],
     Prof_mae_ns |-> map_nao_sei(w.prof_mae_sel, PROF_MAP)[2],
     Internet_A |-> IF w.internet = TemAcesso THEN 1 ELSE 0,
     Internet_B |-> IF w.internet = NaoTemAcesso THEN 1 ELSE 0]

(***************************************************************************)
(* make_input_row (lines 156-210)                                          *)
(***************************************************************************)

\* the category lists of the encoder's loops
\* "F", "M" (line 175)
CAT_SEXO == << <<70>>, <<77>> >>
\* "0.0" .. "4.0" (line 179)
CAT_EST_CIVIL == << <<48, 46, 48>>, <<49, 46, 48>>, <<50, 46, 48>>, <<51, 46, 48>>,
                    <<52, 46, 48>> >>
\* "0" .. "6" (line 183)
CAT_RACA == << <<48>>, <<49>>, <<50>>, <<51>>, <<52>>, <<53>>, <<54>> >>
\* "0" .. "4" (line 187)
CAT_NAC == << <<48>>, <<49>>, <<50>>, <<51>>, <<52>> >>
\* "1", "2", "4" (line 191)
CAT_ST_CONC == << <<49>>, <<50>>, <<52>> >>
\* "1", "2", "3" (line 195)
CAT_ESCOLA == << <<49>>, <<50>>, <<51>> >>
\* "0", "1" (line 202)
CAT_LINGUA == << <<48>>, <<49>> >>

W(col, val) == [col |-> col, val |-> val]

\* the loops of lines 175-203 with "1 if selected else 0": a non-empty string is
\* true, so every category is written 1
OneHotWritesTruthy(prefix, cats, selected) ==
    [i \in 1..Len(cats) |-> W(prefix \o cats[i], IF selected # <<>> THEN 1 ELSE 0)]

\* for k in cats: set_if_exists(row, f"{prefix}{k}", 1 if selected==k else 0)
OneHotWrites(prefix, cats, selected) ==
    [i \in 1..Len(cats) |-> W(prefix \o cats[i], IF selected = cats[i] THEN 1 ELSE 0)]

\* the set_if_exists calls of make_input_row, in program order
Writes(in) ==
    << W(COL_TP_FAIXA_ETARIA, in.TP_FAIXA_ETARIA),
       W(COL_QTD_RESIDENTES, in.Qtd_Residentes),
       W(COL_RENDA_ORD, in.Renda_Familiar_ord),
       W(COL_INSTR_PAI_ORD, in.Instrucao_pai_ord),
       W(COL_INSTR_MAE_ORD, in.Instrucao_mae_ord),
       W(COL_PROF_PAI_ORD, in.Prof_pai_ord),
       W(COL_PROF_MAE_ORD, in.Prof_mae_ord),
       W(COL_INSTR_PAI_NS, in.Instrucao_pai_ns),
       W(COL_INSTR_MAE_NS, in.Instrucao_mae_ns),
       W(COL_PROF_PAI_NS, in.Prof_pai_ns),
       W(COL_PROF_MAE_NS, in.Prof_mae_ns) >>
    \o OneHotWrites(PFX_TP_SEXO, CAT_SEXO, in.TP_SEXO)
    \o OneHotWrites(PFX_TP_ESTADO_CIVIL, CAT_EST_CIVIL, in.TP_ESTADO_CIVIL)
    \o OneHotWrites(PFX_TP_COR_RACA, CAT_RACA, in.TP_COR_RACA)
    \o OneHotWrites(PFX_TP_NACIONALIDADE, CAT_NAC, in.TP_NACIONALIDADE)
    \o OneHotWrites(PFX_TP_ST_CONCLUSAO, CAT_ST_CONC, in.TP_ST_CONCLUSAO)
    \o OneHotWrites(PFX_TP_ESCOLA, CAT_ESCOLA, in.TP_ESCOLA)
    \o << W(PFX_SG_UF_PROVA \o in.UF, 1) >>
    \o OneHotWrites(PFX_TP_LINGUA, CAT_LINGUA, in.TP_LINGUA)
    \o << W(COL_INTERNET_A, in.Internet_A),
          W(COL_INTERNET_B, in.Internet_B) >>

(***************************************************************************)
(* Bounds of the model                                                     *)
(***************************************************************************)

\* a submission differs from the form's defaults in at most this many widgets
MaxChanged == 1
\* strings given to normalize have at most this many characters
MaxStrLen == 3
\* the module's functions are called at most this many times in one process
MaxCalls == 2

\* the answers that differ from one of S in at most one widget
OneMoreChange(S) ==
    S \cup UNION {{[w EXCEPT ![f] = v] : v \in Options(f)} : w \in S, f \in Fields}

RECURSIVE AnswersWithin(_)
AnswersWithin(n) ==
    IF n = 0 THEN {DefaultWidgets} ELSE OneMoreChange(AnswersWithin(n - 1))

\* the submissions of the model
Answers == AnswersWithin(MaxChanged)

(***************************************************************************)
(* Values computed once for the feature lists and column names of the model *)
(***************************************************************************)

\* line 69 for each feature list the artifact may hold: the same value every
\* run computes, evaluated once
ActualMapOf == [feats \in Schemas |-> MakeActualMap(feats)]

\* every column name make_input_row passes to set_if_exists
ColumnNames == UNION {{w.col : w \in Range(Writes(BuildInputs(a)))} : a \in Answers}

\* the call of line 81 for each of them that does not resolve
CloseMatchesOf ==
    [amap \in {ActualMapOf[s] : s \in Schemas} |->
        [norm \in {normalize(c) : c \in ColumnNames} \ DOMAIN amap |->
            get_close_matches(norm, DOMAIN amap, CloseN, CutoffNum, CutoffDen)]]

(***************************************************************************)
(* resolve_col (lines 74-84)                                               *)
(***************************************************************************)

\* difflib.get_close_matches(norm, ACTUAL_MAP.keys(), n=3, cutoff=0.6) (line 81).
\* For the feature lists and column names of the model the call's value is
\* read from CloseMatchesOf, which holds that same call evaluated once.
close_matches(norm, amap) ==
    IF amap \in DOMAIN CloseMatchesOf /\ norm \in DOMAIN CloseMatchesOf[amap]
    THEN CloseMatchesOf[amap][norm]
    ELSE get_close_matches(norm, DOMAIN amap, CloseN, CutoffNum, CutoffDen)

\* lines 82-83: close, when not empty, is recorded under col_name
Suggest(col_name, close, amap, sugg) ==
    IF close # <<>>
    THEN DictSet(sugg, col_name, [i \in 1..Len(close) |-> amap[close[i]]])
    ELSE sugg

\* lines 76-84 for norm = normalize(col_name)
resolve_norm(col_name, norm, amap, sugg) ==
    IF norm \in DOMAIN amap
    THEN [real |-> amap[norm], sugg |-> sugg]
    ELSE [real |-> None, sugg |-> Suggest(col_name, close_matches(norm, amap), amap, sugg)]

\* resolve_col falling back on the first suggestion recorded for the name
resolve_col_cached(col_name, amap, sugg) ==
    IF col_name \in DOMAIN sugg /\ normalize(col_name) \notin DOMAIN amap
    THEN [real |-> sugg[col_name][1], sugg |-> sugg]
    ELSE resolve_norm(col_name, normalize(col_name), amap, sugg)

\* Returns [real |-> the column or None, sugg |-> _suggestions after the call]
resolve_col(col_name, amap, sugg) ==
    resolve_norm(col_name, normalize(col_name), amap, sugg)

(***************************************************************************)
(* set_if_exists (lines 143-148) on st = [row, missing, sugg]              *)
(***************************************************************************)

\* row[label] = val for a label that is not among the columns: pandas adds it
AddColumn(r, label, val) ==
    [cols |-> Append(r.cols, label), vals |-> Append(r.vals, val)]

\* set_if_exists assigning row[col] when the name does not resolve
set_resolved_creates(st, r, col, val) ==
    IF r.real # None /\ InColumns(st.row, r.real)
    THEN [row |-> SetColumn(st.row, r.real, val),
          missing |-> st.missing, sugg |-> r.sugg]
    ELSE [row |-> IF InColumns(st.row, col) THEN SetColumn(st.row, col, val)
                  ELSE AddColumn(st.row, col, val),
          missing |-> Append(st.missing, col), sugg |-> r.sugg]

\* lines 145-148 for r = resolve_col(col)
set_resolved(st, r, col, val) ==
    IF r.real # None /\ InColumns(st.row, r.real)
    THEN [row |-> SetColumn(st.row, r.real, val),
          missing |-> st.missing, sugg |-> r.sugg]
    ELSE [row |-> st.row,
          missing |-> Append(st.missing, col), sugg |-> r.sugg]

set_if_exists(st, amap, col, val) ==
    set_resolved(st, resolve_col(col, amap, st.sugg), col, val)

(***************************************************************************)
(* The script: one run per page load or form submission.  Streamlit runs   *)
(* the whole file top to bottom each time; only load_artifacts' result is  *)
(* kept between runs (st.cache_resource, line 38).                         *)
(***************************************************************************)

NoInputs == [none |-> TRUE]
NoRow == [cols |-> <<>>, vals |-> <<>>]
NoCall == [fn |-> "none"]

\* lines 71-72 run once per process instead of once per script run
ScriptCollectorsKept(oldMissing, oldSuggestions) ==
    [missing |-> oldMissing, sugg |-> oldSuggestions]

\* lines 71-72, run at the top of every script run: the collectors are bound
\* to a fresh list and a fresh dict, whatever the previous run left in them
ScriptCollectors(oldMissing, oldSuggestions) ==
    [missing |-> <<>>, sugg |-> EmptyDict]

\* the block with the diagnostics of lines 315-322 after the prediction
SubmittedBlockPredictFirst ==
    <<"inputs", "make_input_row", "predict", "diagnostics", "show">>

\* the statements of the "if submitted:" block (lines 277-334), in program order
SubmittedBlock == <<"inputs", "make_input_row", "diagnostics", "predict", "show">>

FirstStmt == SubmittedBlock[1]

StmtAt(i) == IF i <= Len(SubmittedBlock) THEN SubmittedBlock[i] ELSE "done"

NextStmt(stmt) ==
    StmtAt(1 + CHOOSE j \in 1..Len(SubmittedBlock) : SubmittedBlock[j] = stmt)

Ev(ev, data) == [ev |-> ev, data |-> data]

Init ==
    /\ cache = None
    /\ FEATURE_LIST = None
    /\ ACTUAL_MAP = EmptyDict
    /\ missing_cols = <<>>
    /\ suggestions = EmptyDict
    /\ widgets = DefaultWidgets
    /\ inputs = NoInputs
    /\ row = NoRow
    /\ pc = "start"
    /\ k = 0
    /\ out = <<>>
    /\ ncalls = 0
    /\ call = NoCall
    /\ ret = None

\* The first run of the script: load_artifacts misses the cache and loads the
\* artifact (lines 38-49), the globals are built (lines 69-72), the form is
\* shown with its defaults and submitted is False.
FirstRun(feats) ==
    /\ pc = "start"
    /\ cache' = feats
    /\ FEATURE_LIST' = feats
    /\ ACTUAL_MAP' = ActualMapOf[feats]
    /\ missing_cols' = ScriptCollectors(missing_cols, suggestions).missing
    /\ suggestions' = ScriptCollectors(missing_cols, suggestions).sugg
    /\ pc' = "idle"
    /\ UNCHANGED <<widgets, inputs, row, k, out, ncalls, call, ret>>

\* The user sets the widgets and presses the button: the script runs again
\* from the top with submitted = True, load_artifacts returning the cached pair.
\* call records how many names the previous run had left in _missing_cols.
Submit(w) ==
    /\ pc \in {"idle", "done"}
    /\ widgets' = w
    /\ FEATURE_LIST' = cache
    /\ ACTUAL_MAP' = ActualMapOf[cache]
    /\ missing_cols' = ScriptCollectors(missing_cols, suggestions).missing
    /\ suggestions' = ScriptCollectors(missing_cols, suggestions).sugg
    /\ inputs' = NoInputs
    /\ row' = NoRow
    /\ k' = 0
    /\ out' = <<>>
    /\ pc' = FirstStmt
    /\ call' = [fn |-> "rerun", left |-> Len(missing_cols)]
    /\ UNCHANGED <<cache, ncalls, ret>>

\* lines 279-309
MakeInputs ==
    /\ pc = "inputs"
    /\ inputs' = BuildInputs(widgets)
    /\ pc' = NextStmt("inputs")
    /\ UNCHANGED <<cache, FEATURE_LIST, ACTUAL_MAP, missing_cols, suggestions, widgets,
                   row, k, out, ncalls, call, ret>>

\* line 157
EmptyRow ==
    /\ pc = "make_input_row"
    /\ k = 0
    /\ row' = empty_row(FEATURE_LIST)
    /\ k' = 1
    /\ UNCHANGED <<cache, FEATURE_LIST, ACTUAL_MAP, missing_cols, suggestions, widgets,
                   inputs, pc, out, ncalls, call, ret>>

\* the state the k-th set_if_exists call of lines 160-207 leaves
KthWrite ==
    set_if_exists([row |-> row, missing |-> missing_cols, sugg |-> suggestions],
                  ACTUAL_MAP, Writes(inputs)[k].col, Writes(inputs)[k].val)

\* the k-th set_if_exists call of lines 160-207
SetIfExists ==
    /\ pc = "make_input_row"
    /\ k >= 1
    /\ k <= Len(Writes(inputs))
    /\ row' = KthWrite.row
    /\ missing_cols' = KthWrite.missing
    /\ suggestions' = KthWrite.sugg
    /\ k' = k + 1
    /\ UNCHANGED <<cache, FEATURE_LIST, ACTUAL_MAP, widgets, inputs, pc, out,
                   ncalls, call, ret>>

\* line 210 and the assignment of line 312
ReturnRow ==
    /\ pc = "make_input_row"
    /\ k = Len(Writes(inputs)) + 1
    /\ row' = SelectColumns(row, FEATURE_LIST)
    /\ pc' = NextStmt("make_input_row")
    /\ UNCHANGED <<cache, FEATURE_LIST, ACTUAL_MAP, missing_cols, suggestions, widgets,
                   inputs, k, out, ncalls, call, ret>>

\* lines 315-322
ShowDiagnostics ==
    /\ pc = "diagnostics"
    /\ out' = out
              \o (IF missing_cols # <<>>
                  THEN <<Ev("warning", Range(missing_cols))>>
                       \o (IF DOMAIN suggestions # {}
                           THEN <<Ev("info", None), Ev("json_suggestions", suggestions)>>
                           ELSE <<>>)
                  ELSE <<>>)
    /\ pc' = NextStmt("diagnostics")
    /\ UNCHANGED <<cache, FEATURE_LIST, ACTUAL_MAP, missing_cols, suggestions, widgets,
                   inputs, row, k, ncalls, call, ret>>

\* lines 325-327: the model is given the row; its answer is shown
Predict ==
    /\ pc = "predict"
    /\ out' = out \o <<Ev("predict", row), Ev("success", None), Ev("caption", None)>>
    /\ pc' = NextStmt("predict")
    /\ UNCHANGED <<cache, FEATURE_LIST, ACTUAL_MAP, missing_cols, suggestions, widgets,
                   inputs, row, k, ncalls, call, ret>>

\* lines 330-334
ShowData ==
    /\ pc = "show"
    /\ out' = out \o <<Ev("json_inputs", inputs), Ev("dataframe", row)>>
    /\ pc' = NextStmt("show")
    /\ UNCHANGED <<cache, FEATURE_LIST, ACTUAL_MAP, missing_cols, suggestions, widgets,
                   inputs, row, k, ncalls, call, ret>>

Next ==
    \/ \E feats \in Schemas : FirstRun(feats)
    \/ \E w \in Answers : Submit(w)
    \/ MakeInputs
    \/ EmptyRow
    \/ SetIfExists
    \/ ReturnRow
    \/ ShowDiagnostics
    \/ Predict
    \/ ShowData

Spec == Init /\ [][Next]_vars

(***************************************************************************)
(* normalize called on its own result (lines 52-66)                        *)
(***************************************************************************)

\* the characters of the strings given to normalize: "A", "a", "0", "_", " ",
\* c with cedilla, the fraction one half, the ligature fi
NormChars == {65, 97, 48, 95, 32, 231, 189, 64257}

\* the strings given to normalize, and None
NormArgs == {None} \cup UNION {[1..n -> NormChars] : n \in 0..MaxStrLen}

InitNormalize ==
    /\ cache = None
    /\ FEATURE_LIST = None
    /\ ACTUAL_MAP = EmptyDict
    /\ missing_cols = <<>>
    /\ suggestions = EmptyDict
    /\ widgets = DefaultWidgets
    /\ inputs = NoInputs
    /\ row = NoRow
    /\ pc = "normalize"
    /\ k = 0
    /\ out = <<>>
    /\ ncalls = 0
    /\ call \in {[fn |-> "normalize", arg |-> s] : s \in NormArgs}
    /\ ret = None

\* normalize(s)
Normalize ==
    /\ pc = "normalize"
    /\ out = <<>>
    /\ ret' = normalize(call.arg)
    /\ out' = <<normalize(call.arg)>>
    /\ UNCHANGED <<cache, FEATURE_LIST, ACTUAL_MAP, missing_cols, suggestions, widgets,
                   inputs, row, pc, k, ncalls, call>>

\* normalize applied to the string the first call returned
NormalizeResult ==
    /\ pc = "normalize"
    /\ Len(out) = 1
    /\ ret' = normalize(ret)
    /\ out' = Append(out, normalize(ret))
    /\ pc' = "normalized"
    /\ UNCHANGED <<cache, FEATURE_LIST, ACTUAL_MAP, missing_cols, suggestions, widgets,
                   inputs, row, k, ncalls, call>>

NextNormalize == Normalize \/ NormalizeResult

SpecNormalize == InitNormalize /\ [][NextNormalize]_vars

(***************************************************************************)
(* The module's functions called one after another in one process: the     *)
(* collectors of lines 71-72 are module globals and keep what earlier      *)
(* calls put in them.                                                      *)
(***************************************************************************)

\* names given to resolve_col besides the normalized columns of the feature list
ApiNames == {COL_RENDA_ORD, COL_PROF_MAE_ORD, PFX_TP_SEXO \o <<70>>}

\* inputs given to make_input_row
ApiAnswers ==
    {DefaultWidgets,
     [DefaultWidgets EXCEPT !.sexo = <<77>>],
     [DefaultWidgets EXCEPT !.uf = AtIndex(UF_LIST, 25)]}

InitApi ==
    /\ cache \in Schemas
    /\ FEATURE_LIST = cache
    /\ ACTUAL_MAP = ActualMapOf[cache]
    /\ missing_cols = <<>>
    /\ suggestions = EmptyDict
    /\ widgets = DefaultWidgets
    /\ inputs = NoInputs
    /\ row = NoRow
    /\ pc = "imported"
    /\ k = 0
    /\ out = <<>>
    /\ ncalls = 0
    /\ call = NoCall
    /\ ret = None

\* resolve_col(normalize(c)) for the i-th column c of FEATURE_LIST
ResolveCanonical(i) ==
    /\ pc = "imported"
    /\ ncalls < MaxCalls
    /\ call' = [fn |-> "resolve_col", arg |-> normalize(FEATURE_LIST[i]),
                canonical |-> FEATURE_LIST[i]]
    /\ ret' = resolve_col(normalize(FEATURE_LIST[i]), ACTUAL_MAP, suggestions).real
    /\ suggestions' = resolve_col(normalize(FEATURE_LIST[i]), ACTUAL_MAP, suggestions).sugg
    /\ ncalls' = ncalls + 1
    /\ UNCHANGED <<cache, FEATURE_LIST, ACTUAL_MAP, missing_cols, widgets, inputs, row,
                   pc, k, out>>

\* resolve_col(name) for a name of the encoder
ResolveName(name) ==
    /\ pc = "imported"
    /\ ncalls < MaxCalls
    /\ call' = [fn |-> "resolve_col", arg |-> name, canonical |-> None]
    /\ ret' = resolve_col(name, ACTUAL_MAP, suggestions).real
    /\ suggestions' = resolve_col(name, ACTUAL_MAP, suggestions).sugg
    /\ ncalls' = ncalls + 1
    /\ UNCHANGED <<cache, FEATURE_LIST, ACTUAL_MAP, missing_cols, widgets, inputs, row,
                   pc, k, out>>

\* make_input_row(inputs, FEATURE_LIST) is called with the collectors as they
\* are; call keeps what they held when the call was made
Encode(w) ==
    /\ pc = "imported"
    /\ ncalls < MaxCalls
    /\ widgets' = w
    /\ inputs' = BuildInputs(w)
    /\ call' = [fn |-> "make_input_row", missing |-> missing_cols, sugg |-> suggestions]
    /\ k' = 0
    /\ pc' = "make_input_row"
    /\ ncalls' = ncalls + 1
    /\ UNCHANGED <<cache, FEATURE_LIST, ACTUAL_MAP, missing_cols, suggestions, row,
                   out, ret>>

\* line 210: the row goes back to the caller; out keeps every row returned
\* with the answers it was made from
ReturnToCaller ==
    /\ pc = "make_input_row"
    /\ k = Len(Writes(inputs)) + 1
    /\ row' = SelectColumns(row, FEATURE_LIST)
    /\ ret' = SelectColumns(row, FEATURE_LIST)
    /\ out' = Append(out, [answers |-> widgets, row |-> SelectColumns(row, FEATURE_LIST)])
    /\ k' = 0
    /\ pc' = "imported"
    /\ UNCHANGED <<cache, FEATURE_LIST, ACTUAL_MAP, missing_cols, suggestions, widgets,
                   inputs, ncalls, call>>

NextApi ==
    \/ \E i \in 1..Len(FEATURE_LIST) : ResolveCanonical(i)
    \/ \E name \in ApiNames : ResolveName(name)
    \/ \E w \in ApiAnswers : Encode(w)
    \/ EmptyRow
    \/ SetIfExists
    \/ ReturnToCaller

SpecApi == InitApi /\ [][NextApi]_vars

(***************************************************************************)
(* Properties                                                              *)
(***************************************************************************)

\* the positions of the script after make_input_row has returned
Returned == {"diagnostics", "predict", "show", "done"}

\* normalize of every name the encoder uses, evaluated once
TokenOf == [c \in ColumnNames |-> normalize(c)]

\* the name does not resolve against the feature list in use
UnresolvedName(col) == TokenOf[col] \notin DOMAIN ACTUAL_MAP

\* the columns of the feature list that the names resolve to
ColumnsOf(names) ==
    {ACTUAL_MAP[TokenOf[n]] : n \in {m \in names : ~UnresolvedName(m)}}

ValueOf(r, col) == r.vals[ColumnAt(r.cols, col)]

\* the last column of the list whose normalized form is the token
LastWithToken(feature_list, token) ==
    feature_list[CHOOSE i \in 1..Len(feature_list) :
                    /\ normalize(feature_list[i]) = token
                    /\ \A j \in (i + 1)..Len(feature_list) :
                          normalize(feature_list[j]) # token]

CategoricalFields(w) ==
    {[names |-> {PFX_TP_SEXO \o c : c \in Range(OPT_SEXO)},
      selected |-> PFX_TP_SEXO \o w.sexo],
     [names |-> {PFX_TP_ESTADO_CIVIL \o c : c \in Range(OPT_EST_CIVIL)},
      selected |-> PFX_TP_ESTADO_CIVIL \o w.est_civil],
     [names |-> {PFX_TP_COR_RACA \o c : c \in Range(OPT_RACA)},
      selected |-> PFX_TP_COR_RACA \o w.raca],
     [names |-> {PFX_TP_NACIONALIDADE \o c : c \in Range(OPT_NAC)},
      selected |-> PFX_TP_NACIONALIDADE \o w.nac],
     [names |-> {PFX_TP_ST_CONCLUSAO \o c : c \in Range(OPT_ST_CONC)},
      selected |-> PFX_TP_ST_CONCLUSAO \o w.st_conc],
     [names |-> {PFX_TP_ESCOLA \o c : c \in Range(OPT_ESCOLA)},
      selected |-> PFX_TP_ESCOLA \o w.escola],
     [names |-> {PFX_TP_LINGUA \o c : c \in Range(OPT_LINGUA)},
      selected |-> PFX_TP_LINGUA \o w.lingua],
     [names |-> {PFX_SG_UF_PROVA \o c : c \in Range(UF_LIST)},
      selected |-> PFX_SG_UF_PROVA \o w.uf],
     [names |-> {COL_INTERNET_A, COL_INTERNET_B},
      selected |-> IF w.internet = TemAcesso THEN COL_INTERNET_A ELSE COL_INTERNET_B]}

\* C2: in the row make_input_row returned, the one-hot columns of a categorical
\* field that the feature list has hold 0 or 1, and the ones holding 1 are
\* exactly the column of the selected answer: one column, or none when the
\* feature list has no column for that answer.
C2_OneHot ==
    pc \in Returned
        => \A f \in CategoricalFields(widgets) :
              /\ \A c \in ColumnsOf(f.names) : ValueOf(row, c) \in {0, 1}
              /\ {c \in ColumnsOf(f.names) : ValueOf(row, c) = 1} = ColumnsOf({f.selected})
              /\ Cardinality(ColumnsOf({f.selected})) <= 1

\* a returned row with a field whose selected column holds the only 1 among
\* two present columns, and a field with columns but none for the answer
C2_OneAndNone ==
    /\ pc = "done"
    /\ \E f \in CategoricalFields(widgets) :
          /\ Cardinality(ColumnsOf(f.names)) >= 2
          /\ Cardinality({c \in ColumnsOf(f.names) : ValueOf(row, c) = 1}) = 1
    /\ \E f \in CategoricalFields(widgets) :
          /\ ColumnsOf(f.names) # {}
          /\ ColumnsOf({f.selected}) = {}
          /\ \A c \in ColumnsOf(f.names) : ValueOf(row, c) = 0

\* what C3 says of one parental field with a list of n entries
ParentalOrdinal(selection, list, n, ordinal, flag) ==
    IF selection = NaoSei
    THEN ordinal = 0 /\ flag = 1
    ELSE /\ flag = 0
         /\ ordinal \in 1..n
         /\ Len(list) = n
         /\ list[ordinal] = selection

\* C3: for each parental field, "Nao sei" gives ordinal 0 and flag 1, and any
\* other selection gives flag 0 and the selection's 1-based position in its
\* list (1..7 for education, 1..5 for occupation).
C3_MapNaoSei ==
    pc \in {"make_input_row"} \cup Returned
        => /\ ParentalOrdinal(widgets.instr_pai_sel, INSTR_LIST, 7,
                              inputs.Instrucao_pai_ord, inputs.Instrucao_pai_ns)
           /\ ParentalOrdinal(widgets.instr_mae_sel, INSTR_LIST, 7,
                              inputs.Instrucao_mae_ord, inputs.Instrucao_mae_ns)
           /\ ParentalOrdinal(widgets.prof_pai_sel, PROF_LIST, 5,
                              inputs.Prof_pai_ord, inputs.Prof_pai_ns)
           /\ ParentalOrdinal(widgets.prof_mae_sel, PROF_LIST, 5,
                              inputs.Prof_mae_ord, inputs.Prof_mae_ns)

\* the inputs of a submission with the last education level for the father
\* and "Nao sei" for the mother's occupation
C3_LastAndNaoSei ==
    /\ pc = "make_input_row"
    /\ widgets.instr_pai_sel = INSTR_LIST[7]
    /\ inputs.Instrucao_pai_ord = 7
    /\ inputs.Instrucao_pai_ns = 0
    /\ widgets.prof_mae_sel = NaoSei
    /\ inputs.Prof_mae_ord = 0
    /\ inputs.Prof_mae_ns = 1

\* C4: a set_if_exists call whose name does not resolve records the name as
\* missing, writes no column of the row and goes on to the next field; after
\* the last field the row is returned.
C4_UnresolvedSkipped ==
    [][/\ (/\ pc = "make_input_row"
           /\ k \in 1..Len(Writes(inputs))
           /\ UnresolvedName(Writes(inputs)[k].col))
          => /\ row' = row
             /\ missing_cols' = Append(missing_cols, Writes(inputs)[k].col)
             /\ k' = k + 1
             /\ pc' = "make_input_row"
       /\ (pc = "make_input_row" /\ k = Len(Writes(inputs)) + 1)
          => /\ pc' = "diagnostics"
             /\ missing_cols' = missing_cols
             /\ Len(row'.vals) = Len(FEATURE_LIST)]_vars

\* encoding goes on after a name that did not resolve was recorded
C4_SkippedAndContinued ==
    /\ pc = "make_input_row"
    /\ k \in 2..Len(Writes(inputs))
    /\ UnresolvedName(Writes(inputs)[k - 1].col)
    /\ missing_cols # <<>>
    /\ missing_cols[Len(missing_cols)] = Writes(inputs)[k - 1].col
    /\ ~UnresolvedName(Writes(inputs)[k].col)

\* C5: the row make_input_row returned, which is the row given to the model,
\* has the columns of the feature list in the list's order and one number
\* for each.
C5_RowMatchesSchema ==
    /\ pc \in Returned
          => /\ row.cols = FEATURE_LIST
             /\ DOMAIN row.vals = 1..Len(FEATURE_LIST)
             /\ \A i \in 1..Len(FEATURE_LIST) : row.vals[i] \in Nat
    /\ \A i \in 1..Len(out) :
          out[i].ev = "predict" => out[i].data.cols = FEATURE_LIST

\* the model was given a row although some names did not resolve
C5_PredictedWithMissing ==
    /\ pc = "done"
    /\ missing_cols # <<>>
    /\ \E i \in 1..Len(out) : out[i].ev = "predict" /\ out[i].data = row
    /\ \E i \in 1..Len(row.vals) : row.vals[i] > 1

\* the events that show diagnostics (lines 316-322)
DiagEvents == {"warning", "info", "json_suggestions"}

\* C6 as stated: whenever a diagnostic is shown the prediction has already
\* been invoked.
C6_DiagnosticsAfterPrediction ==
    \A i \in 1..Len(out) :
        out[i].ev \in DiagEvents => \E j \in 1..(i - 1) : out[j].ev = "predict"

\* C6 as amended: the diagnostics are shown after the row is encoded and
\* before the prediction is invoked: no diagnostic follows the prediction,
\* and once the prediction is invoked on a submission with unresolved names
\* the warning naming them (and the suggestions, when there are any) is shown.
C6_DiagnosticsBeforePrediction ==
    /\ \A i \in 1..Len(out) :
          out[i].ev \in DiagEvents => \A j \in 1..(i - 1) : out[j].ev # "predict"
    /\ \A j \in 1..Len(out) :
          (out[j].ev = "predict" /\ missing_cols # <<>>)
              => /\ out[j].data = row
                 /\ \E i \in 1..(j - 1) :
                       out[i].ev = "warning" /\ out[i].data = Range(missing_cols)
                 /\ DOMAIN suggestions # {}
                       => \E i \in 1..(j - 1) :
                             out[i].ev = "json_suggestions" /\ out[i].data = suggestions

\* a submission that showed the warning and the suggestions, then predicted
C6_WarnedThenPredicted ==
    /\ pc = "done"
    /\ \E i, j \in 1..Len(out) :
          /\ i < j
          /\ out[i].ev = "json_suggestions"
          /\ out[j].ev = "predict"

\* C7: normalize is idempotent: normalize applied to the string it returned
\* returns that string.
C7_Idempotent == Len(out) = 2 => out[2] = out[1]

\* normalize changed a string to a token of several characters and was
\* applied to that token
C7_Renormalized ==
    /\ pc = "normalized"
    /\ Len(out) = 2
    /\ call.arg # None
    /\ out[1] # call.arg
    /\ Len(out[1]) >= 2
    /\ \E i \in 1..Len(out[1]) : out[1][i] = 95

\* what the form's default answers put in the row: the normalized name of each
\* logical column with a non-zero default (lines 220-272)
DefaultsExpected ==
    {
     \* tp_faixa_etaria
     [token |-> <<116, 112, 95, 102, 97, 105, 120, 97, 95, 101, 116, 97, 114, 105, 97>>,
      val |-> 2, indicator |-> FALSE],
     \* qtd_residentes
     [token |-> <<113, 116, 100, 95, 114, 101, 115, 105, 100, 101, 110, 116, 101, 115>>,
      val |-> 3, indicator |-> FALSE],
     \* renda_familiar_ord
     [token |-> <<114, 101, 110, 100, 97, 95, 102, 97, 109, 105, 108, 105, 97, 114, 95, 111, 114, 100>>,
      val |-> 6, indicator |-> FALSE],
     \* instrucao_do_pai_nao_sei
     [token |-> <<105, 110, 115, 116, 114, 117, 99, 97, 111, 95, 100, 111, 95, 112, 97, 105, 95, 110, 97, 111, 95, 115, 101, 105>>,
      val |-> 1, indicator |-> TRUE],
     \* instrucao_da_mae_nao_sei
     [token |-> <<105, 110, 115, 116, 114, 117, 99, 97, 111, 95, 100, 97, 95, 109, 97, 101, 95, 110, 97, 111, 95, 115, 101, 105>>,
      val |-> 1, indicator |-> TRUE],
     \* profissao_do_pai_nao_sei
     [token |-> <<112, 114, 111, 102, 105, 115, 115, 97, 111, 95, 100, 111, 95, 112, 97, 105, 95, 110, 97, 111, 95, 115, 101, 105>>,
      val |-> 1, indicator |-> TRUE],
     \* profissao_da_mae_nao_sei
     [token |-> <<112, 114, 111, 102, 105, 115, 115, 97, 111, 95, 100, 97, 95, 109, 97, 101, 95, 110, 97, 111, 95, 115, 101, 105>>,
      val |-> 1, indicator |-> TRUE],
     \* tp_sexo_f
     [token |-> <<116, 112, 95, 115, 101, 120, 111, 95, 102>>,
      val |-> 1, indicator |-> TRUE],
     \* tp_estado_civil_0_0
     [token |-> <<116, 112, 95, 101, 115, 116, 97, 100, 111, 95, 99, 105, 118, 105, 108, 95, 48, 95, 48>>,
      val |-> 1, indicator |-> TRUE],
     \* tp_cor_raca_3
     [token |-> <<116, 112, 95, 99, 111, 114, 95, 114, 97, 99, 97, 95, 51>>,
      val |-> 1, indicator |-> TRUE],
     \* tp_nacionalidade_1
     [token |-> <<116, 112, 95, 110, 97, 99, 105, 111, 110, 97, 108, 105, 100, 97, 100, 101, 95, 49>>,
      val |-> 1, indicator |-> TRUE],
     \* tp_st_conclusao_2
     [token |-> <<116, 112, 95, 115, 116, 95, 99, 111, 110, 99, 108, 117, 115, 97, 111, 95, 50>>,
      val |-> 1, indicator |-> TRUE],
     \* tp_escola_2
     [token |-> <<116, 112, 95, 101, 115, 99, 111, 108, 97, 95, 50>>,
      val |-> 1, indicator |-> TRUE],
     \* sg_uf_prova_se
     [token |-> <<115, 103, 95, 117, 102, 95, 112, 114, 111, 118, 97, 95, 115, 101>>,
      val |-> 1, indicator |-> TRUE],
     \* tp_lingua_0
     [token |-> <<116, 112, 95, 108, 105, 110, 103, 117, 97, 95, 48>>,
      val |-> 1, indicator |-> TRUE],
     \* acesso_a_internet_a
     [token |-> <<97, 99, 101, 115, 115, 111, 95, 97, 95, 105, 110, 116, 101, 114, 110, 101, 116, 95, 97>>,
      val |-> 1, indicator |-> TRUE]
    }

\* the default value of the logical name that resolves to the column, 0 when
\* no such name does
ExpectedDefault(col, entries) ==
    IF \E e \in entries : e.token \in DOMAIN ACTUAL_MAP /\ ACTUAL_MAP[e.token] = col
    THEN (CHOOSE e \in entries :
             e.token \in DOMAIN ACTUAL_MAP /\ ACTUAL_MAP[e.token] = col).val
    ELSE 0

NamesWritten(n) == [i \in 1..n |-> Writes(inputs)[i].col]

\* the set_if_exists calls the submission has made so far
WritesDone ==
    IF pc = "make_input_row" THEN (IF k = 0 THEN 0 ELSE k - 1)
    ELSE Len(Writes(inputs))

\* C9: the missing-column list and the suggestions map of a submission hold
\* only entries produced by encoding that submission, whatever earlier
\* submissions left: they are empty when the submission starts, the list is
\* the unresolved names among the calls made so far, the map's keys are among
\* them, and the warning shown names exactly them; the inputs dict is the one
\* built from the submission's own answers.
C9_OnlyThisSubmission ==
    /\ pc \in {"idle", "inputs"} => (missing_cols = <<>> /\ suggestions = EmptyDict)
    /\ pc \in {"make_input_row"} \cup Returned
          => /\ inputs = BuildInputs(widgets)
             /\ missing_cols = SelectSeq(NamesWritten(WritesDone), UnresolvedName)
             /\ DOMAIN suggestions \subseteq Range(missing_cols)
    /\ \A i \in 1..Len(out) :
          out[i].ev = "warning"
              => out[i].data = {c \in Range(NamesWritten(Len(Writes(inputs)))) :
                                   UnresolvedName(c)}

\* a submission made after a run that had left more names in the list than
\* this one reports
C9_Resubmitted ==
    /\ pc = "diagnostics"
    /\ call.fn = "rerun"
    /\ call.left > Len(missing_cols)
    /\ missing_cols # <<>>
    /\ DOMAIN suggestions # {}

\* C10: make_input_row returns the same row for the same feature list and
\* answers whatever the collectors hold when it is called: two calls with the
\* same answers in one process return equal rows.
C10_SameRow ==
    \A i, j \in 1..Len(out) : out[i].answers = out[j].answers => out[i].row = out[j].row

\* make_input_row was called a second time with the same answers while the
\* collectors held entries of earlier calls
C10_CalledOnLeftovers ==
    /\ pc = "imported"
    /\ Len(out) = 2
    /\ out[1].answers = out[2].answers
    /\ call.fn = "make_input_row"
    /\ call.missing # <<>>
    /\ DOMAIN call.sugg # {}

====
